---- MODULE Spec2Model ----
(***************************************************************************)
(* restrain_pucker_idoa.py: get_dict_selections scans the lines of an .itp *)
(* topology file and records the ring atoms of IdoA residues;              *)
(* format_restraint prints six dihedral restraints per residue id.         *)
(*                                                                         *)
(* Text (a line, a field, a dictionary key) is a sequence of one-character *)
(* strings, so that `in`, str.split and the f-string key are computed as   *)
(* Python computes them.  Python indices are kept 0-based (PyIndex).       *)
(***************************************************************************)
EXTENDS Integers, Sequences, FiniteSets, TLC

VARIABLES
  lines,       \* f.readlines()
  i,           \* loop index of enumerate(lines)
  start,       \* the flag of line 44
  dictionary,  \* the dict of line 45 (dictio in format_restraint): sequence of entries in insertion order
  evaluated,   \* history: indices i whose line reached line 52 (the filters)
  recorded,    \* history: indices i whose line reached line 58 (an entry written)
  pc,          \* "scan", "format", "loop", "done", "error"
  resids,      \* the ordered set of line 79
  r,           \* number of residue ids the loop of line 81 has completed
  string,      \* the text accumulated by format_restraint, as a sequence of lines
  stdout,      \* what print() wrote: <<>> until line 99
  err          \* <<>>, <<"IndexError">> or <<"KeyError", key>>: the uncaught exception

vars == <<lines, i, start, dictionary, evaluated, recorded, pc, resids, r, string, stdout, err>>

----------------------------------------------------------------------------
(* Bounds of the input families *)

MaxLines == 5
MaxBody == 3
MaxBlocks == 2

----------------------------------------------------------------------------
(* Python primitives *)

Whitespace == {" ", "\t", "\n"}

\* `sub in s` for strings
Contains(sub, s) ==
  \E k \in 0..(Len(s) - Len(sub)) : SubSeq(s, k + 1, k + Len(sub)) = sub

\* str.split(): fields separated by runs of whitespace, no empty field
RECURSIVE SplitFrom(_, _, _, _)
SplitFrom(s, k, cur, acc) ==
  IF k > Len(s)
    THEN (IF cur = <<>> THEN acc ELSE Append(acc, cur))
    ELSE IF s[k] \in Whitespace
      THEN SplitFrom(s, k + 1, <<>>, IF cur = <<>> THEN acc ELSE Append(acc, cur))
      ELSE SplitFrom(s, k + 1, Append(cur, s[k]), acc)

Split(s) == SplitFrom(s, 1, <<>>, <<>>)

\* str.split(sep) for a one-character separator: empty pieces are kept
RECURSIVE SplitOnFrom(_, _, _, _, _)
SplitOnFrom(s, sep, k, cur, acc) ==
  IF k > Len(s)
    THEN Append(acc, cur)
    ELSE IF s[k] = sep
      THEN SplitOnFrom(s, sep, k + 1, <<>>, Append(acc, cur))
      ELSE SplitOnFrom(s, sep, k + 1, Append(cur, s[k]), acc)

SplitOn(s, sep) == SplitOnFrom(s, sep, 1, <<>>, <<>>)

\* seq[k] with Python's index rule: a negative k counts from the end
InRange(seq, k) == -Len(seq) <= k /\ k < Len(seq)
PyIndex(seq, k) == IF k >= 0 THEN seq[k + 1] ELSE seq[Len(seq) + k + 1]

\* dict, in insertion order
DictHas(d, k) == \E n \in 1..Len(d) : d[n].k = k
DictGet(d, k) == d[CHOOSE n \in 1..Len(d) : d[n].k = k].v
DictSetAppend(d, k, v) == Append(d, [k |-> k, v |-> v])
DictSet(d, k, v) ==
  IF DictHas(d, k)
    THEN [n \in 1..Len(d) |-> IF d[n].k = k THEN [k |-> k, v |-> v] ELSE d[n]]
    ELSE Append(d, [k |-> k, v |-> v])
DictKeys(d) == [n \in 1..Len(d) |-> d[n].k]

\* dictio[key]: the value, or KeyError(key)
LookupDefault(d, k) == <<"ok", IF DictHas(d, k) THEN DictGet(d, k) ELSE <<>>>>
Lookup(d, k) == IF DictHas(d, k) THEN <<"ok", DictGet(d, k)>> ELSE <<"KeyError", k>>

\* OrderedSet(list): first occurrences, in order
OsetNoDedup(list) == list
RECURSIVE OsetLast(_)
OsetLast(list) ==
  IF Len(list) = 0 THEN <<>>
  ELSE IF \E n \in 2..Len(list) : list[n] = list[1]
    THEN OsetLast(Tail(list))
    ELSE <<list[1]>> \o OsetLast(Tail(list))
RECURSIVE OsetFrom(_, _, _)
OsetFrom(list, k, acc) ==
  IF k > Len(list) THEN acc
  ELSE OsetFrom(list, k + 1,
                IF \E n \in 1..Len(acc) : acc[n] = list[k] THEN acc ELSE Append(acc, list[k]))
Oset(list) == OsetFrom(list, 1, <<>>)


----------------------------------------------------------------------------
(* Literals of the program *)

AtomsMarker == <<"[", " ", "a", "t", "o", "m", "s", " ", "]">>
BondsMarker == <<"[", " ", "b", "o", "n", "d", "s", " ", "]">>

tYuA   == <<"Y", "u", "A">>
tAIDOA == <<"A", "I", "D", "O", "A">>
nC1 == <<"C", "1">>
nO5 == <<"O", "5">>
nC5 == <<"C", "5">>
nC4 == <<"C", "4">>
nC3 == <<"C", "3">>
nC2 == <<"C", "2">>

IdoaTokens == <<tYuA, tAIDOA>>
AtomTokens == <<nC1, nO5, nC5, nC4, nC2, nC3>>

\* any(idoa in line[3] for idoa in ['YuA', 'AIDOA'])
ResidueMatches(restype) == \E n \in 1..Len(IdoaTokens) : Contains(IdoaTokens[n], restype)

\* any(atom in line[4] for atom in ['C1', 'O5', 'C5', 'C4', 'C2', 'C3'])
AtomMatchesExact(name) == \E n \in 1..Len(AtomTokens) : AtomTokens[n] = name
AtomMatches(name) == \E n \in 1..Len(AtomTokens) : Contains(AtomTokens[n], name)

\* f"{line[4]}_{line[2]}"
KeyOfSwapped(name, resid) == resid \o <<"_">> \o name
KeyOf(name, resid) == name \o <<"_">> \o resid

\* k.split('_')[1]
ResidOfKey(k) == SplitOn(k, "_")[2]

----------------------------------------------------------------------------
(* get_dict_selections *)

\* the for statement is over: i has run through enumerate(lines)
LoopDoneEarly(k) == k >= Len(lines) - 1
LoopDone(k) == k >= Len(lines)

\* line 48: '[ bonds ]' in lines[i+1]
BondsAhead(k) == Contains(BondsMarker, PyIndex(lines, k + 1))

\* line 61: '[ atoms ]' in lines[i-1]
AtomsHere(k) == Contains(AtomsMarker, PyIndex(lines, k))
AtomsBehind(k) == Contains(AtomsMarker, PyIndex(lines, k - 1))

\* lines 52-58 on one line: the updated dict, or IndexError from line[3] / line[4]
ProcessLine(d, line) ==
  LET f == Split(line) IN
  IF Len(f) < 4 THEN [st |-> "IndexError", d |-> d, rec |-> FALSE]
  ELSE IF ResidueMatches(f[4])
    THEN IF Len(f) < 5 THEN [st |-> "IndexError", d |-> d, rec |-> FALSE]
         ELSE IF AtomMatches(f[5])
           THEN [st |-> "ok", d |-> DictSet(d, KeyOf(f[5], f[3]), f[1]), rec |-> TRUE]
           ELSE [st |-> "ok", d |-> d, rec |-> FALSE]
    ELSE [st |-> "ok", d |-> d, rec |-> FALSE]

\* line 48: lines[i+1] does not exist
ScanLookaheadError ==
  /\ pc = "scan" /\ ~LoopDone(i)
  /\ ~InRange(lines, i + 1)
  /\ pc' = "error" /\ err' = <<"IndexError">>
  /\ UNCHANGED <<lines, i, start, dictionary, evaluated, recorded, resids, r, string, stdout>>

\* lines 48-49: the next line holds '[ bonds ]': break, return dictionary
ScanBreak ==
  /\ pc = "scan" /\ ~LoopDone(i)
  /\ InRange(lines, i + 1)
  /\ BondsAhead(i)
  /\ pc' = "format"
  /\ UNCHANGED <<lines, i, start, dictionary, evaluated, recorded, resids, r, string, stdout, err>>

\* lines 51-62: one iteration that does not break and does not raise
ScanLine ==
  /\ pc = "scan" /\ ~LoopDone(i)
  /\ InRange(lines, i + 1)
  /\ ~BondsAhead(i)
  /\ LET p == ProcessLine(dictionary, PyIndex(lines, i)) IN
       /\ start => p.st = "ok"
       /\ dictionary' = IF start THEN p.d ELSE dictionary
       /\ evaluated' = IF start THEN evaluated \cup {i} ELSE evaluated
       /\ recorded' = IF start /\ p.rec THEN recorded \cup {i} ELSE recorded
  /\ start' = (start \/ AtomsBehind(i))
  /\ i' = i + 1
  /\ UNCHANGED <<lines, pc, resids, r, string, stdout, err>>

\* lines 52-56: line[3] or line[4] does not exist
ScanFieldError ==
  /\ pc = "scan" /\ ~LoopDone(i)
  /\ InRange(lines, i + 1)
  /\ ~BondsAhead(i)
  /\ start
  /\ ProcessLine(dictionary, PyIndex(lines, i)).st = "IndexError"
  /\ evaluated' = evaluated \cup {i}
  /\ pc' = "error" /\ err' = <<"IndexError">>
  /\ UNCHANGED <<lines, i, start, dictionary, recorded, resids, r, string, stdout>>

\* line 64 after the loop ran out of lines
ScanReturn ==
  /\ pc = "scan" /\ LoopDone(i)
  /\ pc' = "format"
  /\ UNCHANGED <<lines, i, start, dictionary, evaluated, recorded, resids, r, string, stdout, err>>

----------------------------------------------------------------------------
(* format_restraint *)

dictio == dictionary

\* A line of the output.  A literal line carries its text; a restraint line
\* carries its whitespace-delimited fields (the column padding is dropped).
Literal(t) ==
  [text |-> t, atoms |-> <<>>, type |-> "", angle |-> "", tol |-> "", fc |-> "", comment |-> <<>>]
Restraint(a, b, c, d, angle, names) ==
  [text |-> "", atoms |-> <<a, b, c, d>>, type |-> "1", angle |-> angle, tol |-> "2.5",
   fc |-> "DIHRES_FC", comment |-> names]

GuardLine   == Literal("#ifdef PUCKER")
SectionLine == Literal("[ dihedral_restraints ]")
EndifLine   == Literal("#endif")

\* lines 91-96
RestraintLinesSwapped(c1, o5, c5, c4, c3, c2) ==
  << Restraint(c1, o5, c5, c4, "-60.0", <<"C1", "O5", "C5", "C4">>),
     Restraint(o5, c5, c4, c3, "60.0",  <<"O5", "C5", "C4", "C3">>),
     Restraint(c5, c4, c3, c2, "-60.0", <<"C5", "C4", "C3", "C2">>),
     Restraint(c4, c2, c3, c1, "60.0",  <<"C4", "C3", "C2", "C1">>),
     Restraint(c3, c2, c1, o5, "-60.0", <<"C3", "C2", "C1", "O5">>),
     Restraint(c2, c1, o5, c5, "60.0",  <<"C2", "C1", "O5", "C5">>) >>
RestraintLines(c1, o5, c5, c4, c3, c2) ==
  << Restraint(c1, o5, c5, c4, "-60.0", <<"C1", "O5", "C5", "C4">>),
     Restraint(o5, c5, c4, c3, "60.0",  <<"O5", "C5", "C4", "C3">>),
     Restraint(c5, c4, c3, c2, "-60.0", <<"C5", "C4", "C3", "C2">>),
     Restraint(c4, c3, c2, c1, "60.0",  <<"C4", "C3", "C2", "C1">>),
     Restraint(c3, c2, c1, o5, "-60.0", <<"C3", "C2", "C1", "O5">>),
     Restraint(c2, c1, o5, c5, "60.0",  <<"C2", "C1", "O5", "C5">>) >>

\* lines 83-88: the six lookups, in the order the code makes them
LookupOrder == <<nC1, nO5, nC5, nC4, nC3, nC2>>
Lookups(d, resid) == [n \in 1..6 |-> Lookup(d, KeyOf(LookupOrder[n], resid))]

\* lines 77-79
FormatBegin ==
  /\ pc = "format"
  /\ string' = <<GuardLine, SectionLine>>
  /\ resids' = Oset([n \in 1..Len(dictio) |-> ResidOfKey(DictKeys(dictio)[n])])
  /\ r' = 0
  /\ pc' = "loop"
  /\ UNCHANGED <<lines, i, start, dictionary, evaluated, recorded, stdout, err>>

\* lines 81-96 for one resid, all six keys found
FormatResid ==
  /\ pc = "loop" /\ r < Len(resids)
  /\ LET l == Lookups(dictio, resids[r + 1]) IN
       /\ \A n \in 1..6 : l[n][1] = "ok"
       /\ string' = string \o RestraintLines(l[1][2], l[2][2], l[3][2], l[4][2], l[5][2], l[6][2])
  /\ r' = r + 1
  /\ UNCHANGED <<lines, i, start, dictionary, evaluated, recorded, pc, resids, stdout, err>>

\* lines 83-88: the first failing lookup raises KeyError
FormatKeyError ==
  /\ pc = "loop" /\ r < Len(resids)
  /\ LET l == Lookups(dictio, resids[r + 1]) IN
       /\ \E n \in 1..6 : l[n][1] = "KeyError"
       /\ err' = l[CHOOSE n \in 1..6 : l[n][1] = "KeyError" /\ \A m \in 1..(n - 1) : l[m][1] = "ok"]
  /\ pc' = "error"
  /\ UNCHANGED <<lines, i, start, dictionary, evaluated, recorded, resids, r, string, stdout>>

\* lines 98-99
FormatPrint ==
  /\ pc = "loop" /\ r = Len(resids)
  /\ string' = Append(string, EndifLine)
  /\ stdout' = string'
  /\ pc' = "done"
  /\ UNCHANGED <<lines, i, start, dictionary, evaluated, recorded, resids, r, err>>

----------------------------------------------------------------------------
(* The input files *)

Digits == <<"0", "1", "2", "3", "4", "5", "6", "7", "8", "9">>
RECURSIVE Dec(_)
Dec(n) == IF n < 10 THEN <<Digits[n + 1]>> ELSE Dec(n \div 10) \o <<Digits[(n % 10) + 1]>>

RECURSIVE JoinSp(_)
JoinSp(tokens) ==
  IF Len(tokens) = 0 THEN <<>>
  ELSE IF Len(tokens) = 1 THEN tokens[1]
  ELSE tokens[1] \o <<" ">> \o JoinSp(Tail(tokens))

RECURSIVE Concat(_)
Concat(seqs) == IF Len(seqs) = 0 THEN <<>> ELSE seqs[1] \o Concat(Tail(seqs))

\* an [ atoms ] row: nr type resnr residue atom
Rec(nr, resnr, residue, atom) == JoinSp(<<Dec(nr), <<"t">>, resnr, residue, atom>>)

AtomsHdr   == AtomsMarker
BondsHdr   == BondsMarker
Blank      == <<>>
CommentHdr == JoinSp(<<<<";">>, <<"n", "r">>, <<"t", "y", "p", "e">>>>)

tGLC  == <<"G", "L", "C">>
t0YuA == <<"0", "Y", "u", "A">>
nC11  == <<"C", "1", "1">>
nH1   == <<"H", "1">>
id5   == <<"5">>
id7   == <<"7">>
id5A  == <<"5", "_", "A">>

Ring == <<nC1, nO5, nC5, nC4, nC3, nC2>>

\* Family 1: every file of at most MaxLines lines over the two headers, a
\* blank line and two records
RecC1    == Rec(10, id5, tAIDOA, nC1)
RecGLC   == Rec(99, id5, tGLC, nC1)
SmallLines == {AtomsHdr, BondsHdr, Blank, RecC1, RecGLC}
SmallFiles == UNION {[1..n -> SmallLines] : n \in 0..MaxLines}

\* Family 1b: up to MaxBody rows of any kind between a comment line and a
\* blank line
RecC11   == Rec(12, id5, t0YuA, nC11)
RecH1    == Rec(13, id5, tAIDOA, nH1)
RecShort == JoinSp(<<Dec(14), <<"t">>, id5, tAIDOA>>)
BodyLines == {RecC1, RecGLC, RecC11, RecH1, RecShort, Blank}
BodyFiles ==
  {<<AtomsHdr, CommentHdr>> \o body \o <<Blank, BondsHdr>> :
     body \in UNION {[1..n -> BodyLines] : n \in 0..MaxBody}}

\* Family 2: residue 5 (AIDOA), atoms C1 O5 C5 C4 C3 C2 with indices 10..15,
\* in every order, directly between the two headers or with a comment line
\* after '[ atoms ]' and a blank line before '[ bonds ]'
SixRecs == [k \in 1..6 |-> Rec(9 + k, id5, tAIDOA, Ring[k])]
Perms6 == {p \in [1..6 -> 1..6] : \A a, b \in 1..6 : a # b => p[a] # p[b]}
SectionFiles ==
  {<<AtomsHdr>> \o [k \in 1..6 |-> SixRecs[p[k]]] \o <<BondsHdr>> : p \in Perms6}
  \cup {<<AtomsHdr, CommentHdr>> \o [k \in 1..6 |-> SixRecs[p[k]]] \o <<Blank, BondsHdr>> : p \in Perms6}

\* Family 3: up to MaxBlocks residue blocks between a comment line and a blank
\* line; a block is a residue's ring atoms without the atom `miss` (0: none)
ResType(id) == IF id = id7 THEN t0YuA ELSE tAIDOA
Base(id) == IF id = id5 THEN 10 ELSE IF id = id7 THEN 20 ELSE 30
Block(id, miss) ==
  LET keep == SelectSeq(<<1, 2, 3, 4, 5, 6>>, LAMBDA k : k # miss) IN
  [n \in 1..Len(keep) |-> Rec(Base(id) + keep[n] - 1, id, ResType(id), Ring[keep[n]])]
BlockKinds == {Block(id, miss) : id \in {id5, id7, id5A}, miss \in {0, 1, 6}}
PreRecs  == {<<>>, <<Rec(40, id7, t0YuA, nC1)>>}
PostRecs == {<<>>, <<Rec(41, id5, tAIDOA, nC1)>>, <<Rec(42, id5, tAIDOA, nC11)>>}
BlockFiles ==
  {<<AtomsHdr, CommentHdr>> \o pre \o Concat(bs) \o post \o <<Blank, BondsHdr>> :
     pre \in PreRecs, post \in PostRecs,
     bs \in UNION {[1..n -> BlockKinds] : n \in 0..MaxBlocks}}

Files == SmallFiles \cup BodyFiles \cup SectionFiles \cup BlockFiles

----------------------------------------------------------------------------
(* The program: lines 106-109 *)

Init ==
  /\ lines \in Files
  /\ i = 0
  /\ start = FALSE
  /\ dictionary = <<>>
  /\ evaluated = {}
  /\ recorded = {}
  /\ pc = "scan"
  /\ resids = <<>>
  /\ r = 0
  /\ string = <<>>
  /\ stdout = <<>>
  /\ err = <<>>

Next ==
  \/ ScanLookaheadError
  \/ ScanBreak
  \/ ScanLine
  \/ ScanFieldError
  \/ ScanReturn
  \/ FormatBegin
  \/ FormatResid
  \/ FormatKeyError
  \/ FormatPrint

Spec == Init /\ [][Next]_vars

\* exit status of the interpreter: 0 after line 109, 1 after an uncaught exception
Terminated == pc \in {"done", "error"}
ExitCode == IF pc = "error" THEN 1 ELSE 0

----------------------------------------------------------------------------
(* Vocabulary of the properties *)

HasAtoms(k) == Contains(<<"[", " ", "a", "t", "o", "m", "s", " ", "]">>, PyIndex(lines, k))
HasBonds(k) == Contains(<<"[", " ", "b", "o", "n", "d", "s", " ", "]">>, PyIndex(lines, k))
LineIdx == 0..(Len(lines) - 1)

\* format_restraint was entered and has ended, by print or by KeyError
FormatterEnded == pc = "done" \/ (pc = "error" /\ err[1] = "KeyError")

\* the residue ids format_restraint derives from the keys (line 79), as a set
DerivedIds == {ResidOfKey(dictio[n].k) : n \in 1..Len(dictio)}
RequiredKeys(id) == {KeyOf(Ring[k], id) : k \in 1..6}
Complete == \A id \in DerivedIds : \A key \in RequiredKeys(id) : DictHas(dictio, key)

RoleNames == <<"C1", "O5", "C5", "C4", "C3", "C2">>
IsRestraintLine(ln) == ln.text = "" /\ Len(ln.atoms) = 4
CountOf(out, ln) == Cardinality({n \in 1..Len(out) : out[n] = ln})

----------------------------------------------------------------------------
(* C1 *)

IsC1File ==
  /\ Len(lines) = 8
  /\ lines[1] = AtomsHdr
  /\ lines[8] = BondsHdr
  /\ {lines[k] : k \in 2..7} = {SixRecs[k] : k \in 1..6}

a10 == <<"1", "0">>
a11 == <<"1", "1">>
a12 == <<"1", "2">>
a13 == <<"1", "3">>
a14 == <<"1", "4">>
a15 == <<"1", "5">>
ExpectedC1 ==
  << GuardLine, SectionLine,
     Restraint(a10, a11, a12, a13, "-60.0", <<"C1", "O5", "C5", "C4">>),
     Restraint(a11, a12, a13, a14, "60.0",  <<"O5", "C5", "C4", "C3">>),
     Restraint(a12, a13, a14, a15, "-60.0", <<"C5", "C4", "C3", "C2">>),
     Restraint(a13, a14, a15, a10, "60.0",  <<"C4", "C3", "C2", "C1">>),
     Restraint(a14, a15, a10, a11, "-60.0", <<"C3", "C2", "C1", "O5">>),
     Restraint(a15, a10, a11, a12, "60.0",  <<"C2", "C1", "O5", "C5">>),
     EndifLine >>

\* C1: for a file whose atoms section (the lines between the '[ atoms ]' line
\* and the '[ bonds ]' line) is the six records of residue 5 (AIDOA), atoms
\* C1 O5 C5 C4 C3 C2 with indices 10..15, in any order, the run prints exactly
\* the guard, the section header, the six restraint lines (10,11,12,13) ..
\* (15,10,11,12) and '#endif'.
C1_EndToEnd ==
  (IsC1File /\ Terminated) => (pc = "done" /\ stdout = ExpectedC1)

IsPaddedC1File ==
  /\ Len(lines) = 10
  /\ lines[1] = AtomsHdr /\ lines[2] = CommentHdr
  /\ lines[9] = Blank /\ lines[10] = BondsHdr
  /\ {lines[k] : k \in 3..8} = {SixRecs[k] : k \in 1..6}

\* C1 as amended: for the file made of the '[ atoms ]' line, a comment line,
\* the six records of residue 5 in any order, a blank line and the '[ bonds ]'
\* line, the run ends normally and prints exactly the expected block.
C1_Padded ==
  (IsPaddedC1File /\ Terminated) => (pc = "done" /\ ExitCode = 0 /\ stdout = ExpectedC1)

\* such a run ended, its records in the order C2 C3 C4 C5 O5 C1
C1_Witness ==
  /\ IsPaddedC1File /\ pc = "done"
  /\ \A k \in 1..6 : lines[2 + k] = SixRecs[7 - k]
  /\ [n \in 1..6 |-> dictionary[n].k] = [n \in 1..6 |-> KeyOf(Ring[7 - n], id5)]

----------------------------------------------------------------------------
(* C2 *)

\* C2: for every SelectionMap that holds all six required keys for each of its
\* N residue ids (the ids format_restraint derives), the printed text is the
\* '#ifdef PUCKER' line once and first, '[ dihedral_restraints ]' once and
\* second, '#endif' once and last, and exactly 6*N restraint lines between.
C2_GuardOnce ==
  (FormatterEnded /\ Complete) =>
    LET N == Cardinality(DerivedIds) IN
    /\ pc = "done"
    /\ Len(stdout) = 6 * N + 3
    /\ stdout[1] = GuardLine
    /\ stdout[2] = SectionLine
    /\ stdout[Len(stdout)] = EndifLine
    /\ CountOf(stdout, GuardLine) = 1
    /\ CountOf(stdout, SectionLine) = 1
    /\ CountOf(stdout, EndifLine) = 1
    /\ \A n \in 3..(Len(stdout) - 1) : IsRestraintLine(stdout[n])

\* two complete residues were printed
C2_Witness ==
  pc = "done" /\ Complete /\ Cardinality(DerivedIds) = 2 /\ Len(stdout) = 15

----------------------------------------------------------------------------
(* C3 *)

\* C3: if some residue id derived from the keys lacks one of its six required
\* keys, format_restraint cannot finish: it ends in a KeyError naming a
\* required key that is absent, and nothing is ever written to stdout, also
\* when earlier residues had all six keys.
C3_MissingKeyFatal ==
  /\ pc # "done" => stdout = <<>>
  /\ ~Complete => /\ pc # "done"
                  /\ ~(pc = "loop" /\ r = Len(resids))
  /\ (pc = "error" /\ err[1] = "KeyError") =>
       /\ ~Complete
       /\ stdout = <<>>
       /\ ~DictHas(dictio, err[2])
       /\ \E id \in DerivedIds : err[2] \in RequiredKeys(id)

\* the KeyError came after a complete residue had put its six lines into string
C3_Witness ==
  /\ pc = "error" /\ err[1] = "KeyError"
  /\ r >= 1 /\ Len(string) = 8
  /\ stdout = <<>>

----------------------------------------------------------------------------
(* C4 *)

\* a file with one '[ atoms ]' line h and a first '[ bonds ]' line b after it,
\* whose section h+1..b-1 is records of one matching residue id that include
\* the six ring atom names
OneResidueSection(h, b, id) ==
  /\ h \in LineIdx /\ b \in LineIdx /\ h < b
  /\ HasAtoms(h) /\ HasBonds(b)
  /\ \A k \in LineIdx : HasAtoms(k) => k = h
  /\ \A k \in 0..(b - 1) : ~HasBonds(k)
  /\ \A k \in (h + 1)..(b - 1) :
       LET f == Split(PyIndex(lines, k)) IN
       Len(f) >= 5 /\ (ResidueMatches(f[4]) => f[3] = id)
  /\ \A n \in 1..6 : \E k \in (h + 1)..(b - 1) :
       LET f == Split(PyIndex(lines, k)) IN ResidueMatches(f[4]) /\ f[5] = Ring[n]

\* C4: for a file whose atoms section holds exactly one residue of a matching
\* type, with records for all six ring atom names, the map get_dict_selections
\* returns has exactly the six keys C1_<id> .. C2_<id>.
C4_SixKeys ==
  pc = "format" =>
    \A h, b \in LineIdx : \A id \in {id5, id7, id5A} :
      OneResidueSection(h, b, id) =>
        /\ Len(dictionary) = 6
        /\ {dictionary[n].k : n \in 1..Len(dictionary)} = RequiredKeys(id)

\* the same with the residue's records looked for in the lines h+2..b-2, and
\* no atom name of the residue that contains a ring atom name without being one
OneResidueWindow(h, b, id) ==
  /\ h \in LineIdx /\ b \in LineIdx /\ h < b
  /\ HasAtoms(h) /\ HasBonds(b)
  /\ \A k \in LineIdx : HasAtoms(k) => k = h
  /\ \A k \in 0..(b - 1) : ~HasBonds(k)
  /\ \A k \in (h + 2)..(b - 2) :
       LET f == Split(PyIndex(lines, k)) IN
       /\ Len(f) >= 5
       /\ ResidueMatches(f[4]) =>
            /\ f[3] = id
            /\ (\E n \in 1..6 : Contains(Ring[n], f[5])) => (\E n \in 1..6 : f[5] = Ring[n])
  /\ \A n \in 1..6 : \E k \in (h + 2)..(b - 2) :
       LET f == Split(PyIndex(lines, k)) IN ResidueMatches(f[4]) /\ f[5] = Ring[n]

\* C4 as amended: when the lines after the one that follows '[ atoms ]' and
\* before the one that precedes '[ bonds ]' hold exactly one residue of a
\* matching type, with records for all six ring atom names and no atom name
\* that merely contains one, the returned map has exactly the six keys.
C4_SixKeysInWindow ==
  pc = "format" =>
    \A h, b \in LineIdx : \A id \in {id5, id7, id5A} :
      OneResidueWindow(h, b, id) =>
        /\ Len(dictionary) = 6
        /\ {dictionary[n].k : n \in 1..Len(dictionary)} = RequiredKeys(id)

\* residue 5 was returned with six keys after a repeated record overwrote one
C4_Witness ==
  /\ pc = "format"
  /\ \E h, b \in LineIdx : OneResidueWindow(h, b, id5)
  /\ Len(dictionary) = 6
  /\ Cardinality(recorded) > 6

----------------------------------------------------------------------------
(* C5 *)

\* C5: while scanning is active, a record line adds an entry iff its field[3]
\* contains 'YuA' or 'AIDOA' and its field[4] contains one of C1 O5 C5 C4 C3
\* C2; the entry is keyed field[4]_field[2] and maps to field[0]; every other
\* line (residue type GLC, atom H1) leaves the map as it was.
C5_Filter ==
  [][ (pc = "scan" /\ pc' = "scan" /\ start) =>
        LET f == Split(PyIndex(lines, i)) IN
        IF /\ Len(f) >= 5
           /\ \/ Contains(<<"Y", "u", "A">>, f[4])
              \/ Contains(<<"A", "I", "D", "O", "A">>, f[4])
           /\ \E a \in {<<"C", "1">>, <<"O", "5">>, <<"C", "5">>,
                        <<"C", "4">>, <<"C", "3">>, <<"C", "2">>} : Contains(a, f[5])
        THEN LET key == f[5] \o <<"_">> \o f[3] IN
             /\ DictHas(dictionary', key)
             /\ DictGet(dictionary', key) = f[1]
             /\ i \in recorded'
             /\ \A n \in 1..Len(dictionary) :
                  dictionary[n].k # key => dictionary'[n] = dictionary[n]
             /\ Len(dictionary') = Len(dictionary) + (IF DictHas(dictionary, key) THEN 0 ELSE 1)
        ELSE dictionary' = dictionary /\ recorded' = recorded
    ]_vars

\* atom C11 of a 0YuA residue was recorded under C11_5, and a GLC record and an
\* H1 record were evaluated without leaving an entry
C5_Witness ==
  /\ DictHas(dictionary, <<"C", "1", "1", "_", "5">>)
  /\ DictGet(dictionary, <<"C", "1", "1", "_", "5">>) = <<"1", "2">>
  /\ \E k \in evaluated : PyIndex(lines, k) = RecGLC
  /\ \E k \in evaluated : PyIndex(lines, k) = RecH1
  /\ Len(dictionary) = 1

----------------------------------------------------------------------------
(* C6 *)

Malformed ==
  \/ \A k \in LineIdx : ~HasAtoms(k)
  \/ \A k \in LineIdx : ~HasBonds(k)
  \/ \E b \in LineIdx : /\ HasBonds(b)
                        /\ \A k \in 0..(b - 1) : ~HasBonds(k)
                        /\ \E h \in LineIdx : HasAtoms(h) /\ b < h

\* C6 as stated: whenever no line holds '[ atoms ]', or no line holds
\* '[ bonds ]', or the first '[ bonds ]' line comes before the '[ atoms ]'
\* line, the run ends in an error and writes no block; a run prints and exits
\* zero only when the markers are present and in order.
C6_MalformedIsError ==
  Malformed => (pc # "done" /\ stdout = <<>>)

NoBondsAfterFirstLine == Len(lines) >= 1 /\ \A k \in 1..(Len(lines) - 1) : ~HasBonds(k)

\* C6 as amended: whenever the file is not empty and no line after its first
\* holds '[ bonds ]', get_dict_selections never returns: the loop cannot run
\* out of lines, the only exception is IndexError, and nothing is written.
C6_NoBondsIsError ==
  NoBondsAfterFirstLine =>
    /\ pc \in {"scan", "error"}
    /\ pc = "scan" => i < Len(lines)
    /\ pc = "error" => (err = <<"IndexError">> /\ ExitCode = 1)
    /\ stdout = <<>>

\* the scan of a file with '[ atoms ]' but no '[ bonds ]' reached the last
\* line and failed on the lookahead
C6_Witness ==
  /\ NoBondsAfterFirstLine
  /\ \E k \in LineIdx : HasAtoms(k)
  /\ pc = "error" /\ err = <<"IndexError">>
  /\ i = Len(lines) - 1 /\ Len(lines) >= 3

----------------------------------------------------------------------------
(* C7 *)

\* line h is the only '[ atoms ]' line, line b > h+1 the first '[ bonds ]' line
MarkersInOrder(h, b) ==
  /\ h \in LineIdx /\ b \in LineIdx /\ b > h + 1
  /\ HasAtoms(h) /\ HasBonds(b)
  /\ \A k \in LineIdx : HasAtoms(k) => k = h
  /\ \A k \in 0..(b - 1) : ~HasBonds(k)

\* C7: with the only '[ atoms ]' line at h and the first '[ bonds ]' line at
\* b > h+1, the filters are applied to exactly the lines h < i < b-1: scanning
\* is already active for line h+1 and stops at line b-1 without processing it.
C7_Window ==
  \A h, b \in LineIdx :
    MarkersInOrder(h, b) =>
      /\ (pc = "scan" /\ i = h + 1) => start
      /\ evaluated \subseteq {k \in LineIdx : h < k /\ k < b - 1}
      /\ pc = "format" => evaluated = {k \in LineIdx : h < k /\ k < b - 1}

\* C7 as amended: the filters are applied to exactly the lines h+1 < i < b-1:
\* scanning becomes active for line h+2 (the flag is set at the end of the
\* iteration on line h+1) and stops at line b-1 without processing it.
C7_WindowFromSecondLine ==
  \A h, b \in LineIdx :
    MarkersInOrder(h, b) =>
      /\ (pc = "scan" /\ i <= h + 1) => ~start
      /\ (pc = "scan" /\ i > h + 1) => start
      /\ evaluated \subseteq {k \in LineIdx : h + 1 < k /\ k < b - 1}
      /\ pc = "format" => evaluated = {k \in LineIdx : h + 1 < k /\ k < b - 1}

\* a scan returned having passed over a matching record on line h+1 and on
\* line b-1, and having evaluated the line between them
C7_Witness ==
  \E h, b \in LineIdx :
    /\ MarkersInOrder(h, b)
    /\ pc = "format"
    /\ PyIndex(lines, h + 1) = RecC1 /\ PyIndex(lines, b - 1) = RecC1
    /\ evaluated = {h + 2} /\ b = h + 4

----------------------------------------------------------------------------
(* C9 *)

FirstUnderscore(k) == CHOOSE n \in 1..Len(k) : k[n] = "_" /\ \A m \in 1..(n - 1) : k[m] # "_"
AfterFirstUnderscore(k) == SubSeq(k, FirstUnderscore(k) + 1, Len(k))

\* the distinct elements of a sequence, in the order each is first seen
RECURSIVE FirstSeen(_)
FirstSeen(list) ==
  IF Len(list) = 0 THEN <<>>
  ELSE LET front == FirstSeen(SubSeq(list, 1, Len(list) - 1))
           last  == list[Len(list)] IN
       IF \E n \in 1..Len(front) : front[n] = last THEN front ELSE Append(front, last)

\* the residue ids of the claim: what follows each key's first underscore
SuffixIds == FirstSeen([n \in 1..Len(dictio) |-> AfterFirstUnderscore(dictio[n].k)])

BetweenUnderscores(k) ==
  LET t == AfterFirstUnderscore(k) IN
  IF \E n \in 1..Len(t) : t[n] = "_" THEN SubSeq(t, 1, FirstUnderscore(t) - 1) ELSE t

SegmentIds == FirstSeen([n \in 1..Len(dictio) |-> BetweenUnderscores(dictio[n].k)])

----------------------------------------------------------------------------
(* C10 *)

\* C10: start is true while line i is examined only if some line before i
\* holds '[ atoms ]'; hence no entry is recorded from a line at or before the
\* first '[ atoms ]' line, and a file whose '[ atoms ]' lines all come after
\* its first '[ bonds ]' line yields an empty map.
C10_StartFlag ==
  /\ (pc = "scan" /\ start) => \E j \in 0..(i - 1) : HasAtoms(j)
  /\ \A k \in recorded : \E j \in 0..(k - 1) : HasAtoms(j)
  /\ (/\ pc = "format"
      /\ \E b \in LineIdx : /\ HasBonds(b)
                            /\ \A k \in 0..b : ~HasAtoms(k)
                            /\ \E h \in LineIdx : HasAtoms(h))
     => dictionary = <<>>

----------------------------------------------------------------------------
(* C8 *)

\* C8: for every residue id of a complete map, the six lines emitted for it
\* are, for k = 0..5, the atom indices (the map's values) of the roles ring[k],
\* ring[k+1], ring[k+2], ring[k+3] taken cyclically from (C1 O5 C5 C4 C3 C2),
\* then type 1, angle -60.0 for even k and 60.0 for odd k, tolerance 2.5 and
\* DIHRES_FC; the role names stand only in the comment, and all four indices
\* are those of the same residue id.
C8_Quadruplets ==
  (pc \in {"loop", "done"}) =>
    /\ Len(string) = 2 + 6 * r + (IF pc = "done" THEN 1 ELSE 0)
    /\ pc = "done" => (stdout = string /\ r = Len(resids))
    /\ \A g \in 0..(r - 1) : \A k \in 0..5 :
         LET ln == string[2 + 6 * g + k + 1]
             id == resids[g + 1] IN
         /\ ln.text = ""
         /\ Len(ln.atoms) = 4
         /\ \A j \in 0..3 :
              /\ ln.atoms[j + 1] = DictGet(dictio, KeyOf(Ring[((k + j) % 6) + 1], id))
              /\ \A n \in 1..6 : ln.atoms[j + 1] # Ring[n]
         /\ ln.type = "1"
         /\ ln.angle = (IF k % 2 = 0 THEN "-60.0" ELSE "60.0")
         /\ ln.tol = "2.5"
         /\ ln.fc = "DIHRES_FC"
         /\ ln.comment = [j \in 1..4 |-> RoleNames[((k + j - 1) % 6) + 1]]

\* two residues were printed, the second one's first line naming its own atoms
C8_Witness ==
  /\ pc = "done" /\ r = 2 /\ Len(stdout) = 15
  /\ resids = <<id5, id7>>
  /\ stdout[12].atoms = <<<<"2", "3">>, <<"2", "4">>, <<"2", "5">>, <<"2", "0">>>>

====
